---- MODULE Spec2Model ----
(***************************************************************************)
(* Model of src/src/lib.rs: ResponseCache, a persistent memoization cache  *)
(* over one SQLite file holding the table                                  *)
(*     cached (key TEXT PRIMARY KEY, value BLOB).                          *)
(* ResponseCache::new opens a connection and ensures the table exists;     *)
(* ResponseCache::get looks the key up, and on a miss awaits the caller's  *)
(* future, inserts the row and returns the value.                          *)
(*                                                                         *)
(* Every SQL statement is one atomic step on the file.  A get is three     *)
(* steps: the lookup (lines 27-35), the completion of the awaited future   *)
(* (line 37) and the insert (lines 39-44).  Several tasks, each with its   *)
(* own connection to the same path, interleave at those steps.             *)
(***************************************************************************)
EXTENDS Integers, Sequences, FiniteSets, TLC

\* ------------------------------------------------------------------ bounds
MaxCalls == 3       \* get calls started in one behaviour

\* ------------------------------------------------------------------ inputs
Tasks == {"t1", "t2"}
Keys == {"1", "2"}
\* byte vectors a strategy can produce: the empty one and one with an
\* embedded zero byte and a non-text byte
Payloads == {<< >>, <<49, 0, 255>>}

\* ----------------------------------------------------- eyre::Result<Vec<u8>>
Ok(v) == [tag |-> "Ok", val |-> v, kind |-> ""]
Err(e) == [tag |-> "Err", val |-> << >>, kind |-> e]
\* the future unwinds instead of returning (async { panic!() })
Panicked == [tag |-> "Panic", val |-> << >>, kind |-> ""]
NoResult == [tag |-> "None", val |-> << >>, kind |-> ""]
\* the future returned by get is dropped before it has completed
Cancelled == [tag |-> "Cancelled", val |-> << >>, kind |-> ""]

\* what the future handed to get produces if it is ever polled
FetchOutcomes == {Ok(p) : p \in Payloads} \cup {Err("fetch"), Panicked}

\* ---------------------------------------------------------- SQLite values
\* the bytes of v before its first zero byte
UpToNul(v) ==
    LET z == {i \in 1..Len(v) : v[i] = 0}
    IN IF z = {} THEN v
       ELSE SubSeq(v, 1, (CHOOSE i \in z : \A j \in z : i <= j) - 1)

\* variant: the value bound as a zero-terminated string
ToSqlCString(v) == [type |-> "blob", bytes |-> UpToNul(v)]

\* Vec<u8> binds as a BLOB of exactly its bytes (params![.., value])
ToSqlBlob(v) == [type |-> "blob", bytes |-> v]

\* variant: the column read as a String, which a BLOB does not convert to
ColumnGetAsText(cell) ==
    IF cell.type = "text" THEN Ok(cell.bytes) ELSE Err("column")

\* Row::get::<Vec<u8>>(0): only a BLOB converts, byte for byte
ColumnGet(cell) ==
    IF cell.type = "blob" THEN Ok(cell.bytes) ELSE Err("column")

\* ----------------------------------------------------------------- state
VARIABLES
    schema,     \* TRUE once the table cached exists in the file
    cached,     \* the rows of table cached, in rowid order
    cache,      \* cache[t]: the ResponseCache instance task t holds
    call,       \* call[t]: the get call task t is executing
    history     \* completed get calls, in order of completion

vars == <<schema, cached, cache, call, history>>

\* An instance remembers how many rows the file held when new was called
NoCache == [open |-> FALSE, rows |-> 0]

\* A call records, besides the locals of get, when it happened: born is the
\* number of rows the table held when its instance was constructed, started
\* the number of calls already completed when its lookup ran; before and
\* after are the rows of the table at its lookup and at its return.
IdleCall ==
    [pc |-> "idle", key |-> "", fetch |-> NoResult, born |-> 0,
     started |-> 0, before |-> << >>, after |-> << >>,
     lookup |-> "", invoked |-> 0, value |-> << >>, attempts |-> 0,
     inserts |-> 0, result |-> NoResult]

\* number of get calls started so far
NCalls == Len(history) + Cardinality({t \in DOMAIN call : call[t].pc # "idle"})

Init ==
    /\ schema = FALSE
    /\ cached = << >>
    /\ cache = [t \in Tasks |-> NoCache]
    /\ call = [t \in Tasks |-> IdleCall]
    /\ history = << >>

\* ------------------------------------------------------------ SQL helpers
\* indexes of the rows whose key equals k
Matching(rows, k) == {i \in 1..Len(rows) : rows[i].key = k}

\* variant: the WHERE clause left out, the first row of the table is taken
SelectAny(rows, k) ==
    IF Len(rows) = 0
    THEN [found |-> FALSE, cell |-> ToSqlBlob(<< >>)]
    ELSE [found |-> TRUE, cell |-> rows[1].value]

\* variant: the key parameter never matches a row
SelectNone(rows, k) == [found |-> FALSE, cell |-> ToSqlBlob(<< >>)]

\* SELECT value FROM cached WHERE key = (?1); query.next(): first row or None
SelectValue(rows, k) ==
    IF Matching(rows, k) = {}
    THEN [found |-> FALSE, cell |-> ToSqlBlob(<< >>)]
    ELSE [found |-> TRUE,
          cell |-> rows[CHOOSE i \in Matching(rows, k) :
                          \A j \in Matching(rows, k) : i <= j].value]

\* variant: key declared without PRIMARY KEY
InsertRowNoKeyCheck(rows, k, v) ==
    [ok |-> TRUE, rows |-> Append(rows, [key |-> k, value |-> ToSqlBlob(v)])]

\* variant: INSERT OR REPLACE
InsertRowReplace(rows, k, v) ==
    [ok |-> TRUE,
     rows |-> Append(SelectSeq(rows, LAMBDA r : r.key # k),
                     [key |-> k, value |-> ToSqlBlob(v)])]

\* variant: INSERT OR IGNORE
InsertRowIgnore(rows, k, v) ==
    IF Matching(rows, k) # {}
    THEN [ok |-> TRUE, rows |-> rows]
    ELSE [ok |-> TRUE, rows |-> Append(rows, [key |-> k, value |-> ToSqlBlob(v)])]

\* variant: the statement is prepared but never executed
InsertRowLost(rows, k, v) == [ok |-> TRUE, rows |-> rows]

\* variant: the PRIMARY KEY declared on the value column
InsertRowValueKey(rows, k, v) ==
    IF \E i \in 1..Len(rows) : rows[i].value = ToSqlBlob(v)
    THEN [ok |-> FALSE, rows |-> rows]
    ELSE [ok |-> TRUE, rows |-> Append(rows, [key |-> k, value |-> ToSqlBlob(v)])]

\* variant: a literal bound as the key in place of the key parameter
InsertRowFixedKey(rows, k, v) ==
    IF Matching(rows, "1") # {}
    THEN [ok |-> FALSE, rows |-> rows]
    ELSE [ok |-> TRUE, rows |-> Append(rows, [key |-> "1", value |-> ToSqlBlob(v)])]

\* INSERT INTO cached VALUES((?1), (?2)) under key TEXT PRIMARY KEY:
\* a row with the same key makes the statement fail and change nothing
InsertRow(rows, k, v) ==
    IF Matching(rows, k) # {}
    THEN [ok |-> FALSE, rows |-> rows]
    ELSE [ok |-> TRUE, rows |-> Append(rows, [key |-> k, value |-> ToSqlBlob(v)])]

\* variant: the table is dropped and created afresh on every open
RecreateSchema(exists, rows) == << >>

\* CREATE TABLE IF NOT EXISTS cached (...): an existing table is left alone
EnsureSchema(exists, rows) == IF exists THEN rows ELSE << >>

\* ---------------------------------------------------------------- actions
\* ResponseCache::new(path)
New(t) ==
    /\ call[t].pc = "idle"
    /\ schema' = TRUE
    /\ cached' = EnsureSchema(schema, cached)
    /\ cache' = [cache EXCEPT ![t] = [open |-> TRUE, rows |-> Len(cached)]]
    /\ UNCHANGED <<call, history>>

Finish(c, r, rows) == [c EXCEPT !.pc = "done", !.result = r, !.after = rows]

\* get, lines 27-37: prepare, query, next; a row found is returned at once,
\* otherwise the future is polled for the first time
Lookup(t, k, f) ==
    /\ call[t].pc = "idle"
    /\ cache[t].open
    /\ NCalls < MaxCalls
    /\ LET c == [IdleCall EXCEPT !.key = k, !.fetch = f,
                                 !.born = cache[t].rows,
                                 !.started = Len(history), !.before = cached]
           sel == SelectValue(cached, k)
       IN IF sel.found
          THEN /\ history' = Append(history,
                       Finish([c EXCEPT !.lookup = "hit"], ColumnGet(sel.cell), cached))
               /\ call' = call
          ELSE /\ call' = [call EXCEPT ![t] =
                       [c EXCEPT !.pc = "awaiting", !.lookup = "miss",
                                 !.invoked = 1]]
               /\ history' = history
    /\ UNCHANGED <<schema, cached, cache>>

\* variant: fetch.await.unwrap_or_default(), a failed future yields no bytes
FetchCompleteOrDefault(t) ==
    /\ call[t].pc = "awaiting"
    /\ call' = [call EXCEPT ![t].pc = "fetched",
                             ![t].value = IF call[t].fetch.tag = "Ok"
                                          THEN call[t].fetch.val ELSE << >>]
    /\ UNCHANGED <<schema, cached, cache, history>>

\* variant: the error of a failed future is stored as the value of the key
FetchCompleteStoresFailure(t) ==
    /\ call[t].pc = "awaiting"
    /\ IF call[t].fetch.tag = "Ok"
       THEN /\ call' = [call EXCEPT ![t].pc = "fetched",
                                    ![t].value = call[t].fetch.val]
            /\ history' = history
            /\ cached' = cached
       ELSE /\ cached' = InsertRow(cached, call[t].key, << >>).rows
            /\ history' = Append(history, Finish(call[t], call[t].fetch, cached'))
            /\ call' = [call EXCEPT ![t] = IdleCall]
    /\ UNCHANGED <<schema, cache>>

\* get, line 37: fetch.await? completes
FetchComplete(t) ==
    /\ call[t].pc = "awaiting"
    /\ IF call[t].fetch.tag = "Ok"
       THEN /\ call' = [call EXCEPT ![t].pc = "fetched",
                                    ![t].value = call[t].fetch.val]
            /\ history' = history
       ELSE /\ history' = Append(history, Finish(call[t], call[t].fetch, cached))
            /\ call' = [call EXCEPT ![t] = IdleCall]
    /\ UNCHANGED <<schema, cached, cache>>

\* variant: the result of execute is dropped, Ok(value) is returned regardless
InsertUnchecked(t) ==
    /\ call[t].pc = "fetched"
    /\ LET ins == InsertRow(cached, call[t].key, call[t].value)
           c == [call[t] EXCEPT !.attempts = @ + 1,
                                !.inserts = @ + (IF ins.ok THEN 1 ELSE 0)]
       IN /\ cached' = ins.rows
          /\ history' = Append(history, Finish(c, Ok(call[t].value), ins.rows))
    /\ call' = [call EXCEPT ![t] = IdleCall]
    /\ UNCHANGED <<schema, cache>>

\* get, lines 39-44: execute the INSERT, then Ok(value)
Insert(t) ==
    /\ call[t].pc = "fetched"
    /\ LET ins == InsertRow(cached, call[t].key, call[t].value)
           c == [call[t] EXCEPT !.attempts = @ + 1,
                                !.inserts = @ + (IF ins.ok THEN 1 ELSE 0)]
       IN /\ cached' = ins.rows
          /\ history' = Append(history,
                  Finish(c, IF ins.ok THEN Ok(call[t].value) ELSE Err("insert"),
                         ins.rows))
    /\ call' = [call EXCEPT ![t] = IdleCall]
    /\ UNCHANGED <<schema, cache>>

\* the three fallible statements of the lookup, lines 27-32
LookupStages == {"prepare", "query", "next"}

\* what get does when a stage of the lookup fails: prepare(..)? and
\* query.next()? return the error, query(..).unwrap() panics on it
LookupFailure(stage) ==
    IF stage = "query" THEN Panicked ELSE Err("lookup")

\* get, lines 27-32, when the storage engine fails at one of the stages for
\* a reason other than the key being absent
LookupFails(t, k, f, stage) ==
    /\ call[t].pc = "idle"
    /\ cache[t].open
    /\ NCalls < MaxCalls
    /\ LET c == [IdleCall EXCEPT !.key = k, !.fetch = f,
                                 !.born = cache[t].rows,
                                 !.started = Len(history), !.before = cached,
                                 !.lookup = stage]
       IN history' = Append(history, Finish(c, LookupFailure(stage), cached))
    /\ UNCHANGED <<schema, cached, cache, call>>

\* get, lines 39-42, when the INSERT fails for a reason other than the key
\* being present (disk full, database locked): no row is written
InsertFails(t) ==
    /\ call[t].pc = "fetched"
    /\ history' = Append(history,
            Finish([call[t] EXCEPT !.attempts = @ + 1], Err("storage"), cached))
    /\ call' = [call EXCEPT ![t] = IdleCall]
    /\ UNCHANGED <<schema, cached, cache>>

\* variant: a drop guard stores an empty value for the key of a dropped get
CancelWritesEmpty(t) ==
    /\ call[t].pc = "awaiting"
    /\ cached' = InsertRow(cached, call[t].key, << >>).rows
    /\ history' = Append(history, Finish(call[t], Cancelled, cached'))
    /\ call' = [call EXCEPT ![t] = IdleCall]
    /\ UNCHANGED <<schema, cache>>

\* the future returned by get is dropped while it is suspended at line 37,
\* its only await: the locals are dropped, nothing after line 37 runs
Cancel(t) ==
    /\ call[t].pc = "awaiting"
    /\ history' = Append(history, Finish(call[t], Cancelled, cached))
    /\ call' = [call EXCEPT ![t] = IdleCall]
    /\ UNCHANGED <<schema, cached, cache>>

\* variant: the insert is itself awaited, the task suspends before it
ResumeThenSuspend(t) ==
    /\ call[t].pc = "awaiting"
    /\ call' = [call EXCEPT ![t].pc = "fetched", ![t].value = call[t].fetch.val]
    /\ UNCHANGED <<schema, cached, cache, history>>

\* get, lines 37-44, as one poll of a task on a cooperative scheduler: when
\* the awaited future is ready the poll runs on through the INSERT to the
\* return; there is no await after line 37
Resume(t) ==
    /\ call[t].pc = "awaiting"
    /\ IF call[t].fetch.tag = "Ok"
       THEN LET ins == InsertRow(cached, call[t].key, call[t].fetch.val)
                c == [call[t] EXCEPT !.value = call[t].fetch.val,
                                     !.attempts = @ + 1,
                                     !.inserts = @ + (IF ins.ok THEN 1 ELSE 0)]
            IN /\ cached' = ins.rows
               /\ history' = Append(history,
                       Finish(c, IF ins.ok THEN Ok(c.value) ELSE Err("insert"),
                              ins.rows))
       ELSE /\ cached' = cached
            /\ history' = Append(history, Finish(call[t], call[t].fetch, cached))
    /\ call' = [call EXCEPT ![t] = IdleCall]
    /\ UNCHANGED <<schema, cache>>

OthersIdle(t) == \A u \in Tasks \ {t} : call[u].pc = "idle"

Next ==
    \/ \E t \in Tasks : New(t)
    \/ \E t \in Tasks, k \in Keys, f \in FetchOutcomes : Lookup(t, k, f)
    \/ \E t \in Tasks : FetchComplete(t)
    \/ \E t \in Tasks : Insert(t)

Spec == Init /\ [][Next]_vars

\* one get at a time: a call starts only when no other call is in flight
NextSeq ==
    \/ \E t \in Tasks : New(t)
    \/ \E t \in Tasks, k \in Keys, f \in FetchOutcomes :
          OthersIdle(t) /\ Lookup(t, k, f)
    \/ \E t \in Tasks : FetchComplete(t)
    \/ \E t \in Tasks : Insert(t)

SpecSeq == Init /\ [][NextSeq]_vars

\* interleaved gets, any of which its caller may drop while it is suspended
NextCancel ==
    \/ \E t \in Tasks : New(t)
    \/ \E t \in Tasks, k \in Keys, f \in FetchOutcomes \ {Panicked} :
          Lookup(t, k, f)
    \/ \E t \in Tasks : FetchComplete(t)
    \/ \E t \in Tasks : Insert(t)
    \/ \E t \in Tasks : Cancel(t)

SpecCancel == Init /\ [][NextCancel]_vars

\* one get at a time, with every way a single get can end: a failing lookup,
\* a failing future, a failing insert, a drop while suspended
NextFault ==
    \/ \E t \in Tasks : New(t)
    \/ \E t \in Tasks, k \in Keys, f \in FetchOutcomes \ {Panicked} :
          OthersIdle(t) /\ Lookup(t, k, f)
    \/ \E t \in Tasks, k \in Keys, stage \in LookupStages :
          OthersIdle(t) /\ LookupFails(t, k, Ok(<<49, 0, 255>>), stage)
    \/ \E t \in Tasks : FetchComplete(t)
    \/ \E t \in Tasks : Insert(t)
    \/ \E t \in Tasks : InsertFails(t)
    \/ \E t \in Tasks : Cancel(t)

SpecFault == Init /\ [][NextFault]_vars

\* the tasks run on one thread under a cooperative scheduler: a task gives
\* up the thread only where get awaits
NextCoop ==
    \/ \E t \in Tasks : New(t)
    \/ \E t \in Tasks, k \in Keys, f \in FetchOutcomes : Lookup(t, k, f)
    \/ \E t \in Tasks : Resume(t)

SpecCoop == Init /\ [][NextCoop]_vars

TypeOK ==
    /\ schema \in BOOLEAN
    /\ NCalls \in 0..MaxCalls
    /\ Len(history) <= MaxCalls
    /\ \A t \in Tasks : call[t].pc \in {"idle", "awaiting", "fetched"}

\* ------------------------------------------------------------- properties
Calls == 1..Len(history)
H(i) == history[i]

\* the rows stored under key k, and whether there is one
RowsFor(rows, k) == SelectSeq(rows, LAMBDA r : r.key = k)
Present(rows, k) == Len(RowsFor(rows, k)) > 0
\* the bytes stored under a present key
StoredBytes(rows, k) == RowsFor(rows, k)[1].value.bytes

\* C1  Hit implies no computation: a get whose key has an entry when its
\* lookup runs returns exactly the stored bytes and never polls its future,
\* whatever that future would have produced; no call that found its key
\* present is ever left awaiting a future.
HitNoComputation ==
    /\ \A i \in Calls :
          Present(H(i).before, H(i).key) =>
             /\ H(i).result = Ok(StoredBytes(H(i).before, H(i).key))
             /\ H(i).invoked = 0
    /\ \A t \in Tasks :
          call[t].pc # "idle" => ~Present(call[t].before, call[t].key)

\* a hit on the second of two stored keys, with a future that would have
\* produced something else
HitWitness ==
    \E i \in Calls :
       /\ Present(H(i).before, H(i).key)
       /\ Len(H(i).before) = 2
       /\ H(i).before[2].key = H(i).key
       /\ H(i).fetch # Ok(StoredBytes(H(i).before, H(i).key))
       /\ H(i).result = Ok(StoredBytes(H(i).before, H(i).key))

\* C2  Miss implies one computation and one write: with one get at a time, a
\* get whose key is absent and whose future yields v polls the future once,
\* makes one insert, which adds the row (key, v) and nothing else, returns v,
\* and the key is found with v from then on.
MissComputesOnceAndStores ==
    \A i \in Calls :
       (~Present(H(i).before, H(i).key) /\ H(i).fetch.tag = "Ok") =>
          /\ H(i).invoked = 1
          /\ H(i).attempts = 1
          /\ H(i).inserts = 1
          /\ H(i).result = Ok(H(i).fetch.val)
          /\ Len(H(i).after) = Len(H(i).before) + 1
          /\ SubSeq(H(i).after, 1, Len(H(i).before)) = H(i).before
          /\ H(i).after[Len(H(i).after)].key = H(i).key
          /\ H(i).after[Len(H(i).after)].value.bytes = H(i).fetch.val
          /\ Present(cached, H(i).key)
          /\ StoredBytes(cached, H(i).key) = H(i).fetch.val

\* a miss that stored a second key next to an existing one
MissWitness ==
    \E i \in Calls :
       /\ ~Present(H(i).before, H(i).key)
       /\ Len(H(i).before) = 1
       /\ H(i).fetch.tag = "Ok"
       /\ H(i).result = H(i).fetch
       /\ Len(H(i).after) = 2

\* C3  Idempotent repeated gets: once a get of a key has returned a value,
\* every get of that key started after it returns that same value and does
\* not poll its future, whatever that future would have produced.
RepeatedGetsIdempotent ==
    \A i \in Calls : \A j \in Calls :
       (/\ i < j
        /\ H(j).key = H(i).key
        /\ H(i).result.tag = "Ok"
        /\ H(j).started >= i) =>
          /\ H(j).invoked = 0
          /\ H(j).result = H(i).result

\* three gets of one key in a row: the first computes, the two after it are
\* handed futures that would yield something else and return the first value
RepeatedWitness ==
    /\ Len(history) = 3
    /\ H(1).invoked = 1 /\ H(1).result.tag = "Ok"
    /\ \A j \in {2, 3} :
          /\ H(j).key = H(1).key
          /\ H(j).started = j - 1
          /\ H(j).fetch # H(1).fetch
          /\ H(j).invoked = 0
          /\ H(j).result = H(1).result

\* C4  Durability across reopen: a get on an instance constructed after a
\* miss-driven get of the same key had stored its value returns that value
\* without polling its future, even one that would panic; and constructing
\* an instance leaves every row of an existing table as it was.
ReopenedInstanceSees ==
    \A i \in Calls : \A j \in Calls :
       (/\ i < j
        /\ H(j).key = H(i).key
        /\ H(i).invoked = 1
        /\ H(i).result.tag = "Ok"
        /\ H(j).born >= Len(H(i).after)) =>
          /\ H(j).invoked = 0
          /\ H(j).result = H(i).result

NewKeepsRows ==
    \A t \in Tasks : cache'[t] # cache[t] => cached' = cached

DurableAcrossReopen == []ReopenedInstanceSees /\ [][NewKeepsRows]_vars

\* a panicking future handed to an instance opened after the value was stored
ReopenWitness ==
    \E i \in Calls : \E j \in Calls :
       /\ i < j
       /\ H(j).key = H(i).key
       /\ H(i).invoked = 1
       /\ H(i).result.tag = "Ok"
       /\ H(j).born >= Len(H(i).after)
       /\ H(j).fetch = Panicked
       /\ H(j).result = H(i).result

\* C5  Failed fetch never writes: with one get at a time, a get whose key is
\* absent and whose future fails ends with that failure, attempts no insert,
\* and leaves the table exactly as it was at its lookup.
FailedFetchNeverWrites ==
    \A i \in Calls :
       (~Present(H(i).before, H(i).key) /\ H(i).fetch.tag # "Ok") =>
          /\ H(i).result = H(i).fetch
          /\ H(i).attempts = 0
          /\ H(i).after = H(i).before
          /\ ~Present(H(i).after, H(i).key)

\* a future that returned an error on a miss, next to an existing row
FailedFetchWitness ==
    \E i \in Calls :
       /\ ~Present(H(i).before, H(i).key)
       /\ H(i).fetch = Err("fetch")
       /\ H(i).result = Err("fetch")
       /\ Len(H(i).after) = 1

\* C6  Failed insert is an error: when a get that missed and whose future
\* succeeded reaches its insert while the key already has a row, the get
\* returns an error, not the computed value, and the table, the existing row
\* included, is left exactly as it was.
InsertOnPresentKey(t) ==
    /\ call[t].pc = "fetched"
    /\ call'[t].pc = "idle"
    /\ Present(cached, call[t].key)

FailedInsertStep ==
    \A t \in Tasks :
       InsertOnPresentKey(t) =>
          /\ cached' = cached
          /\ Len(history') = Len(history) + 1
          /\ history'[Len(history')].key = call[t].key
          /\ history'[Len(history')].fetch = Ok(call[t].value)
          /\ history'[Len(history')].result.tag = "Err"
          /\ history'[Len(history')].inserts = 0

FailedInsertIsError == [][FailedInsertStep]_vars

\* a get that computed a value different from the one already stored under
\* its key by the time it inserted, and returned the insert error
FailedInsertWitness ==
    \E i \in Calls :
       /\ H(i).invoked = 1
       /\ H(i).fetch.tag = "Ok"
       /\ H(i).attempts = 1
       /\ H(i).result = Err("insert")
       /\ Present(H(i).after, H(i).key)
       /\ StoredBytes(H(i).after, H(i).key) # H(i).fetch.val

\* C7  Uniqueness: in every reachable state, whatever the interleaving of new
\* and get calls of the tasks, the table holds at most one row per key.
AtMostOneEntryPerKey ==
    \A i \in 1..Len(cached) : \A j \in 1..Len(cached) :
       cached[i].key = cached[j].key => i = j

\* both keys stored and a second insert of one of them was attempted
UniquenessWitness ==
    /\ Len(cached) = Cardinality(Keys)
    /\ \E i \in Calls : H(i).attempts = 1 /\ H(i).inserts = 0

\* C8  Entries are immutable and never removed: a key that has a row keeps
\* exactly that row in every later state; the only change a step makes under
\* a key is from no row to one row.
EntryKept(k) ==
    Present(cached, k) => RowsFor(cached', k) = RowsFor(cached, k)

EntryCreatedOnce(k) ==
    ~Present(cached, k) => Len(RowsFor(cached', k)) <= 1

EntriesImmutable ==
    [][\A k \in Keys : EntryKept(k) /\ EntryCreatedOnce(k)]_vars

\* a stored key survived a new, a hit and a get whose future would have
\* produced different bytes
ImmutableWitness ==
    \E i \in Calls : \E j \in Calls :
       /\ i < j
       /\ H(i).key = H(j).key
       /\ H(i).inserts = 1
       /\ H(j).fetch.tag = "Ok"
       /\ H(j).fetch # H(i).fetch
       /\ H(j).born >= Len(H(i).after)
       /\ StoredBytes(cached, H(i).key) = H(i).fetch.val

\* C9  Race on concurrent miss: when two gets of one key both run their
\* lookup before either inserts, and both futures succeed, both poll their
\* future and both attempt an insert; exactly one insert succeeds and that get
\* returns its value, the other returns an error, and the table ends with one
\* row for the key, holding the winner's value.
Racing(i, j) ==
    /\ i < j
    /\ H(i).key = H(j).key
    /\ ~Present(H(i).before, H(i).key)
    /\ ~Present(H(j).before, H(j).key)
    /\ H(j).started < i
    /\ H(i).fetch.tag = "Ok"
    /\ H(j).fetch.tag = "Ok"

Winner(i, j) == IF H(i).inserts = 1 THEN i ELSE j
Loser(i, j) == IF H(i).inserts = 1 THEN j ELSE i

RaceOnConcurrentMiss ==
    \A i \in Calls : \A j \in Calls :
       Racing(i, j) =>
          /\ H(i).invoked = 1 /\ H(j).invoked = 1
          /\ H(i).attempts = 1 /\ H(j).attempts = 1
          /\ H(i).inserts + H(j).inserts = 1
          /\ H(Winner(i, j)).result = Ok(H(Winner(i, j)).fetch.val)
          /\ H(Loser(i, j)).result.tag = "Err"
          /\ Len(RowsFor(cached, H(i).key)) = 1
          /\ StoredBytes(cached, H(i).key) = H(Winner(i, j)).fetch.val

\* two racing gets whose futures produced different values
RaceWitness ==
    \E i \in Calls : \E j \in Calls :
       /\ Racing(i, j)
       /\ H(i).fetch # H(j).fetch
       /\ H(j).result = Err("insert")

\* C10  Byte-exact round trip: the get that stores the bytes v its future
\* produced returns v, the row holds v, and every later successful get of the
\* key returns v, equal in length and in every byte, the empty vector and
\* vectors with zero bytes included.
SameBytes(a, b) ==
    /\ Len(a) = Len(b)
    /\ \A n \in 1..Len(a) : a[n] = b[n]

ByteExactRoundTrip ==
    \A i \in Calls :
       (H(i).inserts = 1) =>
          /\ H(i).result.tag = "Ok"
          /\ SameBytes(H(i).result.val, H(i).fetch.val)
          /\ SameBytes(StoredBytes(cached, H(i).key), H(i).fetch.val)
          /\ \A j \in Calls :
                (i < j /\ H(j).key = H(i).key /\ H(j).result.tag = "Ok") =>
                   SameBytes(H(j).result.val, H(i).fetch.val)

\* a payload with an embedded zero byte and the empty payload, both stored
\* and one of them read back by a later get
RoundTripWitness ==
    /\ \E i \in Calls : H(i).inserts = 1 /\ H(i).fetch.val = << >>
    /\ \E i \in Calls : \E j \in Calls :
          /\ i < j
          /\ H(i).inserts = 1
          /\ \E n \in 1..Len(H(i).fetch.val) : H(i).fetch.val[n] = 0
          /\ H(j).key = H(i).key
          /\ H(j).invoked = 0
          /\ H(j).result = Ok(H(i).fetch.val)

\* C11  Cancellation writes nothing: a get dropped after its lookup missed
\* and before its future completed attempts no insert; if no other call
\* inserted meanwhile the table at the drop is the table at its lookup; and a
\* later get of the key finds it absent unless another call has stored it.
InsertedBetween(i) ==
    \E z \in Calls : H(i).started < z /\ z < i /\ H(z).inserts = 1

StoredBefore(k, n) ==
    \E z \in Calls : z <= n /\ H(z).key = k /\ H(z).inserts = 1

CancelWritesNothing ==
    \A i \in Calls :
       (H(i).result = Cancelled) =>
          /\ ~Present(H(i).before, H(i).key)
          /\ H(i).attempts = 0
          /\ H(i).inserts = 0
          /\ ~InsertedBetween(i) => H(i).after = H(i).before
          /\ \A j \in Calls :
                (/\ i < j
                 /\ H(j).key = H(i).key
                 /\ H(j).started >= i
                 /\ ~StoredBefore(H(i).key, H(j).started)) =>
                   ~Present(H(j).before, H(j).key)

\* a get whose future would have succeeded was dropped, and the next get of
\* the key missed, computed and stored
CancelWitness ==
    \E i \in Calls : \E j \in Calls :
       /\ i < j
       /\ H(i).result = Cancelled
       /\ H(i).fetch.tag = "Ok"
       /\ H(j).key = H(i).key
       /\ H(j).started >= i
       /\ H(j).invoked = 1
       /\ H(j).inserts = 1

\* C12  Retry after a lost race: after a get has failed at its insert because
\* another call stored the key first, a get of the key started afterwards
\* finds the winner's row, returns the winner's value and does not poll its
\* future.
LostRace(i) ==
    /\ H(i).invoked = 1
    /\ H(i).fetch.tag = "Ok"
    /\ H(i).attempts = 1
    /\ H(i).result = Err("insert")

RetryAfterLostRace ==
    \A i \in Calls : \A j \in Calls :
       (/\ i < j
        /\ LostRace(i)
        /\ H(j).key = H(i).key
        /\ H(j).started >= i) =>
          /\ Present(H(j).before, H(j).key)
          /\ H(j).invoked = 0
          /\ H(j).result.tag = "Ok"
          /\ \E w \in Calls :
                /\ w < i
                /\ H(w).key = H(i).key
                /\ H(w).inserts = 1
                /\ H(j).result = Ok(H(w).fetch.val)

\* the loser computed bytes other than the winner's, then a get handed a
\* future yielding the loser's bytes returned the winner's
RetryWitness ==
    \E i \in Calls : \E j \in Calls :
       /\ i < j
       /\ LostRace(i)
       /\ H(j).key = H(i).key
       /\ H(j).started >= i
       /\ H(j).fetch = H(i).fetch
       /\ H(j).result.tag = "Ok"
       /\ H(j).result # H(i).fetch

\* C13  Single-call effect on storage: with one get at a time, a get that
\* ends in any way (hit, stored value, failed lookup, failed future, failed
\* insert, drop) leaves the table as it was at its start or as it was plus
\* one row, and that row is under the call's key, which had none.
OneRowAdded(c) ==
    /\ Len(c.after) = Len(c.before) + 1
    /\ SubSeq(c.after, 1, Len(c.before)) = c.before
    /\ c.after[Len(c.after)].key = c.key
    /\ ~Present(c.before, c.key)

SingleCallEffect ==
    \A i \in Calls : H(i).after = H(i).before \/ OneRowAdded(H(i))

\* one get added a row; gets have ended by a failed insert and by a failed
\* lookup without adding one
SingleCallWitness ==
    /\ \E i \in Calls : OneRowAdded(H(i))
    /\ \E i \in Calls : H(i).result = Err("storage") /\ H(i).after = H(i).before
    /\ \E i \in Calls : H(i).lookup \in LookupStages

\* C14  Every lookup failure is returned as an error: a get whose lookup
\* fails at statement preparation, at parameter binding or at the row fetch
\* returns an error value (it does not panic), does not poll its future and
\* writes nothing.
LookupFailureReturnsError ==
    \A i \in Calls :
       (H(i).lookup \in LookupStages) =>
          /\ H(i).result.tag = "Err"
          /\ H(i).invoked = 0
          /\ H(i).attempts = 0
          /\ H(i).after = H(i).before

\* C16  Storage steps are atomic with respect to other tasks: on a
\* cooperative scheduler, wherever another task can run while a get is
\* unfinished, that get is awaiting its future: its lookup has completed and
\* reported a miss, the future has been polled, and no insert has begun.
SuspendedOnlyAtAwait ==
    \A t \in Tasks :
       call[t].pc # "idle" =>
          /\ call[t].pc = "awaiting"
          /\ call[t].lookup = "miss"
          /\ ~Present(call[t].before, call[t].key)
          /\ call[t].invoked = 1
          /\ call[t].attempts = 0

\* while one get awaits its future another task's get of the same key ran
\* its lookup and its insert
InterleavedWitness ==
    \E t \in Tasks : \E i \in Calls :
       /\ call[t].pc = "awaiting"
       /\ call[t].started < i
       /\ H(i).key = call[t].key
       /\ H(i).before = call[t].before
       /\ H(i).inserts = 1

\* C17  Agreement of results: under every interleaving, a get that returns
\* successfully returns the bytes stored under its key, the key has exactly
\* one row, and so all successful gets of one key return the same value.
AgreementOfResults ==
    /\ \A i \in Calls :
          H(i).result.tag = "Ok" =>
             /\ Len(RowsFor(cached, H(i).key)) = 1
             /\ StoredBytes(cached, H(i).key) = H(i).result.val
    /\ \A i \in Calls : \A j \in Calls :
          (/\ H(i).key = H(j).key
           /\ H(i).result.tag = "Ok"
           /\ H(j).result.tag = "Ok") => H(i).result = H(j).result

\* of two racing gets with different values one won, and a later get handed
\* the loser's future returned the winner's value
AgreementWitness ==
    \E w \in Calls : \E l \in Calls : \E j \in Calls :
       /\ Racing(w, l)
       /\ H(w).fetch # H(l).fetch
       /\ l < j
       /\ H(j).key = H(w).key
       /\ H(j).fetch = H(l).fetch
       /\ H(j).result = H(w).result
       /\ H(w).result = Ok(H(w).fetch.val)

\* C18  A failed get does not poison the key: with one get at a time, after
\* any number of gets of a key that all failed in their future, the key is
\* still absent, and the next get of it with a succeeding future polls that
\* future, stores its value and returns it.
OnlyFailedBefore(j) ==
    /\ \E i \in Calls : i < j /\ H(i).key = H(j).key
    /\ \A i \in Calls :
          (i < j /\ H(i).key = H(j).key) =>
             (H(i).invoked = 1 /\ H(i).fetch.tag # "Ok")

FailureNotCached ==
    \A j \in Calls :
       OnlyFailedBefore(j) =>
          /\ ~Present(H(j).before, H(j).key)
          /\ H(j).invoked = 1
          /\ H(j).fetch.tag = "Ok" =>
                /\ H(j).inserts = 1
                /\ H(j).result = Ok(H(j).fetch.val)
                /\ StoredBytes(cached, H(j).key) = H(j).fetch.val

\* two gets of a key failed in their future, the third stored its value
FailureNotCachedWitness ==
    /\ Len(history) = 3
    /\ OnlyFailedBefore(3)
    /\ H(1).key = H(3).key /\ H(1).result = Err("fetch")
    /\ H(2).key = H(3).key /\ H(2).result = Err("fetch")
    /\ H(3).inserts = 1
    /\ H(3).result = H(3).fetch

\* C19  Independence of keys: when gets of two different absent keys overlap,
\* both futures succeed and neither get races a get of its own key, both
\* return their own computed value and the table ends with both rows.
Overlap(i, j) == i < j /\ H(j).started < i

Contended(j) ==
    \E z \in Calls : Racing(z, j) \/ Racing(j, z)

StoredOwn(i) ==
    /\ H(i).result = Ok(H(i).fetch.val)
    /\ Len(RowsFor(cached, H(i).key)) = 1
    /\ StoredBytes(cached, H(i).key) = H(i).fetch.val

KeysIndependent ==
    \A i \in Calls : \A j \in Calls :
       (/\ Overlap(i, j)
        /\ H(i).key # H(j).key
        /\ ~Present(H(i).before, H(i).key)
        /\ ~Present(H(j).before, H(j).key)
        /\ H(i).fetch.tag = "Ok"
        /\ H(j).fetch.tag = "Ok"
        /\ ~Contended(i)
        /\ ~Contended(j)) => (StoredOwn(i) /\ StoredOwn(j))

\* two overlapping gets of different keys computed the same bytes and both
\* stored them
KeysIndependentWitness ==
    \E i \in Calls : \E j \in Calls :
       /\ Overlap(i, j)
       /\ H(i).key # H(j).key
       /\ H(i).inserts = 1
       /\ H(j).inserts = 1
       /\ H(i).fetch = H(j).fetch
       /\ Len(H(i).fetch.val) > 0
       /\ Len(cached) = 2
====
